---- MODULE Spec2Model ----
(***************************************************************************)
(* Trigger scheduling / execution subsystem of the SillyAgents plugin.     *)
(*                                                                         *)
(* Two programs live in the repository and both are modelled (the second  *)
(* with either of the two versions of its executor that the source holds): *)
(*   "monolith" : the single-file plugin (src/unnamed/part_000) with its   *)
(*                inline registry, routes and fireSubroutineTrigger;       *)
(*   "modular"  : routes/triggers.js + triggers/manager.js (part_002) +    *)
(*                triggers/executor.js + lib/chat.js.                      *)
(* A step of the model is one run-to-completion segment of the Node.js     *)
(* event loop: the code between two awaits that reach the file system or   *)
(* the generation backend.                                                 *)
(***************************************************************************)
EXTENDS Integers, Sequences, FiniteSets, TLC

VARIABLES
    build,            \* which program is running, and with which executor
    disk,             \* path -> file (the chat .jsonl files)
    activeTriggers,   \* key -> job entry (the Map of the registry)
    timers,           \* timer handle -> the setInterval closure and its state
    reqs,             \* request slot -> HTTP request in flight
    chains,           \* chain slot -> one fireSubroutineTrigger chain
    cycles,           \* number of chains started so far
    uncaught,         \* errors that escaped to the event loop
    exited            \* the plugin's exit() has run

vars == <<build, disk, activeTriggers, timers, reqs, chains, cycles, uncaught, exited>>

-----------------------------------------------------------------------------
(* Bounds of the model *)

NumConvs == 1      \* conversations
MaxCycles == 2     \* chains the timers start in one behaviour
MaxInvocations == 1 \* chains a direct caller starts in one behaviour
MaxChains == 2     \* chains in flight at once
MaxReqs == 2       \* HTTP requests in flight at once
MaxTimers == 2     \* setInterval handles ever created
MaxInlineDepth == 1 \* recursion cap of the executors that have no depth guard

(* Program constants *)

MAX_DEPTH == 20

-----------------------------------------------------------------------------
(* JavaScript values *)

Undefined == "undefined"
Null == "null"

\* JS truthiness of a string-or-missing value
Truthy(s) == s \notin {Undefined, Null, ""}

\* String.prototype.trim on the strings the model uses
Trim(s) == IF s = "  " THEN "" ELSE s

\* a || b
Or(a, b) == IF Truthy(a) THEN a ELSE b

-----------------------------------------------------------------------------
(* Conversations, keys and paths *)

AllConvs ==
    <<[characterName |-> "bot", chatName |-> "job"],
      [characterName |-> "bot", chatName |-> "job2"],
      [characterName |-> "bot2", chatName |-> "job"]>>

Convs == {AllConvs[i] : i \in 1..NumConvs}

\* const key = `${characterName}|${chatName}`
TriggerKey(characterName, chatName) == characterName \o "|" \o chatName

\* path.join(getCharacterChatDir(characterName), `${chatName}.jsonl`)
ChatFilePath(characterName, chatName) == characterName \o "/" \o chatName \o ".jsonl"

Keys == {TriggerKey(c.characterName, c.chatName) : c \in Convs}
Paths == {ChatFilePath(c.characterName, c.chatName) : c \in Convs}

-----------------------------------------------------------------------------
(* Records on disk *)

NoCfg ==
    [triggerType |-> Undefined, interval |-> 0, active |-> FALSE,
     triggerText |-> Undefined, fallbackTriggerText |-> Undefined,
     triggerRole |-> Undefined, autoQueue |-> FALSE,
     autoQueuePrompt |-> Undefined, useSummary |-> FALSE,
     toolName |-> Undefined]

\* createSubroutineMetadata: the stored subroutine_config
\* (interval 0 stands for a missing interval: both are falsy and < 1)
createSubroutineMetadata(config) ==
    [triggerType |-> config.triggerType,
     interval |-> config.interval,
     active |-> config.active,
     triggerText |-> Or(config.triggerText, Null),
     fallbackTriggerText |-> config.fallbackTriggerText,
     triggerRole |-> Or(config.triggerRole, "user"),
     autoQueue |-> config.autoQueue,
     autoQueuePrompt |-> config.autoQueuePrompt,
     useSummary |-> config.useSummary,
     toolName |-> config.toolName]

NoMetadata ==
    [user_name |-> Undefined, character_name |-> Undefined,
     subroutine |-> FALSE, subroutine_config |-> NoCfg]

NoTurn == [name |-> Undefined, mes |-> Undefined, is_user |-> FALSE, is_system |-> FALSE]

\* A line of a chat file: the JSON text of a header or of a turn, a blank
\* line, or text that is not JSON (a line cut short by a failed write).
JsonHeader(metadata) == [tag |-> "header", metadata |-> metadata, turn |-> NoTurn]
JsonTurn(msg) == [tag |-> "turn", metadata |-> NoMetadata, turn |-> msg]
BadLine == [tag |-> "bad", metadata |-> NoMetadata, turn |-> NoTurn]
BlankLine == [tag |-> "blank", metadata |-> NoMetadata, turn |-> NoTurn]

\* JSON.stringify of a header or of a turn
JsonStringify(kind, v) == IF kind = "header" THEN JsonHeader(v) ELSE JsonTurn(v)

NoFile == [exists |-> FALSE, lines |-> <<>>]
FileOf(lines) == [exists |-> TRUE, lines |-> lines]

\* content.split('\n').filter(line => line.trim())
NonBlank(lines) == SelectSeq(lines, LAMBDA l : l.tag # "blank")

\* a reader that drops what it cannot parse instead of throwing
readChatFileSkipsBadLines(file) ==
    LET lines == SelectSeq(file.lines, LAMBDA l : l.tag \in {"header", "turn"}) IN
    [ok |-> TRUE, err |-> "",
     metadata |-> IF Len(lines) > 0 THEN lines[1].metadata ELSE NoMetadata,
     messages |-> [i \in 1..(Len(lines) - 1) |->
                      IF lines[i + 1].tag = "turn" THEN lines[i + 1].turn ELSE NoTurn]]

\* readChatFile: { metadata, messages } or a thrown error.
\* JSON.parse of the first line yields whatever JSON value it holds: a turn
\* line parsed as a header has no user_name and no chat_metadata.
readChatFile(file) ==
    LET lines == NonBlank(file.lines) IN
    IF ~file.exists THEN
        [ok |-> FALSE, err |-> "ENOENT", metadata |-> NoMetadata, messages |-> <<>>]
    ELSE IF Len(lines) = 0 THEN
        [ok |-> FALSE, err |-> "Empty chat file", metadata |-> NoMetadata, messages |-> <<>>]
    ELSE IF \E i \in 1..Len(lines) : lines[i].tag = "bad" THEN
        [ok |-> FALSE, err |-> "SyntaxError", metadata |-> NoMetadata, messages |-> <<>>]
    ELSE
        [ok |-> TRUE, err |-> "",
         metadata |-> lines[1].metadata,
         messages |-> [i \in 1..(Len(lines) - 1) |->
                          IF lines[i + 1].tag = "turn" THEN lines[i + 1].turn ELSE NoTurn]]

\* a writer that stores the header and drops the turns
writeChatFileHeaderOnly(metadata, messages) ==
    FileOf(<<JsonStringify("header", metadata)>>)

\* writeChatFile: the file a completed write leaves
writeChatFile(metadata, messages) ==
    FileOf(<<JsonStringify("header", metadata)>> \o
           [i \in 1..Len(messages) |-> JsonStringify("turn", messages[i])])

\* fs.writeFile opens with O_TRUNC and then writes: a write that fails leaves
\* the old file (the open failed), or a prefix of the new text.  One prefix
\* of each kind is kept: nothing written, cut at the last line boundary, cut
\* inside the last line.
FailedWriteOutcomes(old, metadata, messages) ==
    LET new == writeChatFile(metadata, messages).lines IN
    {old} \cup {FileOf(SubSeq(new, 1, n)) : n \in {0, Len(new) - 1}}
          \cup {FileOf(Append(SubSeq(new, 1, n), BadLine)) : n \in {Len(new) - 1}}

\* the turns a file holds (empty when it cannot be read)
TurnsOf(file) == readChatFile(file).messages

-----------------------------------------------------------------------------
(* Subroutine configurations *)

BaseConfig ==
    [triggerType |-> "time-based", interval |-> 5, active |-> FALSE,
     triggerText |-> "ping", fallbackTriggerText |-> Undefined,
     triggerRole |-> "user", autoQueue |-> FALSE,
     autoQueuePrompt |-> Undefined, useSummary |-> FALSE,
     toolName |-> Undefined]

\* the configurations a conversation is created with
Configs ==
    {BaseConfig,
     [BaseConfig EXCEPT !.autoQueue = TRUE],
     [BaseConfig EXCEPT !.interval = 0],
     [BaseConfig EXCEPT !.triggerType = "api-based", !.interval = 0,
                        !.triggerText = Undefined, !.triggerRole = "system"],
     [BaseConfig EXCEPT !.triggerType = "tool-based", !.interval = 0,
                        !.autoQueue = TRUE, !.autoQueuePrompt = "go on",
                        !.toolName = "search"]}

\* the header the create route writes
\* (POST /subroutines: user_name, character_name, chat_metadata)
HeaderOf(conv, config) ==
    [user_name |-> "User", character_name |-> conv.characterName,
     subroutine |-> TRUE, subroutine_config |-> createSubroutineMetadata(config)]

\* isSubroutine(metadata)
isSubroutine(metadata) == metadata.subroutine = TRUE

OldTurn == [name |-> "bot", mes |-> "earlier", is_user |-> FALSE, is_system |-> FALSE]

-----------------------------------------------------------------------------
(* The generation backend *)

FinishCall(reason) == [name |-> "finish", reason |-> reason]
OtherCall == [name |-> "search", reason |-> Undefined]

ToolCallLists ==
    {<<>>, <<FinishCall("ok")>>, <<FinishCall(Undefined)>>, <<OtherCall>>,
     <<OtherCall, OtherCall>>, <<OtherCall, FinishCall("ok")>>}

\* what generateOpenAIResponse resolves to: choices[0].message
Responses == [content : {"", "text"}, tool_calls : ToolCallLists]
NoResponse == [content |-> Undefined, tool_calls |-> <<>>]

\* an executor that looks for finish in the first call only
executeToolCallsFirstOnly(toolCalls) ==
    IF Len(toolCalls) > 0 /\ toolCalls[1].name = "finish"
    THEN [finished |-> TRUE, result |-> Or(toolCalls[1].reason, "Task completed"),
          results |-> 0]
    ELSE [finished |-> FALSE, result |-> Undefined, results |-> Len(toolCalls)]

\* executeToolCalls (triggers/executor.js): the first finish call ends the
\* loop and drops the results gathered before it
RECURSIVE executeToolCallsFrom(_, _, _)
executeToolCallsFrom(toolCalls, i, n) ==
    IF i > Len(toolCalls) THEN [finished |-> FALSE, result |-> Undefined, results |-> n]
    ELSE IF toolCalls[i].name = "finish" THEN
        [finished |-> TRUE, result |-> Or(toolCalls[i].reason, "Task completed"), results |-> 0]
    ELSE executeToolCallsFrom(toolCalls, i + 1, n + 1)

executeToolCalls(toolCalls) == executeToolCallsFrom(toolCalls, 1, 0)

\* JSON.stringify(toolResult.results): one placeholder entry per call
ResultsText(n) == IF n = 1 THEN "[result]" ELSE "[result,result]"

-----------------------------------------------------------------------------
(* Chains: one call of fireSubroutineTrigger and the calls it recurses into *)

NoCount == [trigger |-> 0, agent |-> 0, tool |-> 0, cont |-> 0, system |-> 0]

IdleChain ==
    [pc |-> "idle", impl |-> "none", origin |-> 0, key |-> Undefined,
     characterName |-> Undefined, cfg |-> NoCfg, chatFilePath |-> Undefined,
     depth |-> 0, metadata |-> NoMetadata, messages |-> <<>>, finished |-> FALSE,
     ret |-> "none",
     \* history of the chain, read by the properties only
     base |-> <<>>, before |-> NoFile, appended |-> NoCount, gens |-> 0,
     writes |-> 0, written |-> <<>>, failedAt |-> "none",
     first |-> NoResponse, last |-> NoResponse]

Bump(cnt, kind) == [cnt EXCEPT ![kind] = @ + 1]

\* the trigger turn of triggers/executor.js
ExecutorTriggerTurn(metadata, cfg) ==
    [name |-> Or(metadata.user_name, "User"),
     mes |-> Or(Or(Trim(cfg.triggerText), cfg.fallbackTriggerText),
                "Heartbeat: Continue your task."),
     is_user |-> cfg.triggerRole # "assistant",
     is_system |-> cfg.triggerRole = "system"]

AgentTurn(characterName, aiContent) ==
    [name |-> characterName, mes |-> aiContent, is_user |-> FALSE, is_system |-> FALSE]

\* a finish turn that drops the reason
FinishTurnNoReason(result) ==
    [name |-> "System", mes |-> "Task finished: ", is_user |-> TRUE, is_system |-> TRUE]

FinishTurn(result) ==
    [name |-> "System", mes |-> "Task finished: " \o result,
     is_user |-> TRUE, is_system |-> TRUE]

ToolTurn(n) ==
    [name |-> "Tool", mes |-> ResultsText(n), is_user |-> TRUE, is_system |-> FALSE]

ContinueTurn(metadata, cfg) ==
    [name |-> Or(metadata.user_name, "User"),
     mes |-> Or(cfg.autoQueuePrompt, "Continue reasoning and take next action if needed."),
     is_user |-> TRUE, is_system |-> FALSE]

\* an entry without the depth guard
ExecutorEnterNoGuard(ch, depth) ==
    [ch EXCEPT !.depth = depth, !.pc = "read", !.finished = FALSE,
               !.messages = <<>>, !.metadata = NoMetadata]

\* fireSubroutineTrigger is entered: the depth guard, then readChatFile is
\* awaited. The local variables of the call start afresh.
ExecutorEnter(ch, depth) ==
    IF depth > MAX_DEPTH
    THEN [ch EXCEPT !.depth = depth, !.pc = "returned", !.ret = "true",
                    !.messages = <<>>, !.metadata = NoMetadata]
    ELSE [ch EXCEPT !.depth = depth, !.pc = "read", !.finished = FALSE,
                    !.messages = <<>>, !.metadata = NoMetadata]

\* the file a chain reads: fs.readFile(undefined) rejects
ReadAt(path) ==
    IF path = Undefined
    THEN [ok |-> FALSE, err |-> "ERR_INVALID_ARG_TYPE", metadata |-> NoMetadata, messages |-> <<>>]
    ELSE readChatFile(disk[path])

\* readChatFile resolved: the trigger turn is appended at depth 0 only, then
\* the prompt is built and the generation is awaited
ExecutorLoaded(ch, r) ==
    LET first == ch.depth = 0
        msgs == IF first
                THEN Append(r.messages, ExecutorTriggerTurn(r.metadata, ch.cfg))
                ELSE r.messages
    IN [ch EXCEPT !.pc = "gen", !.metadata = r.metadata, !.messages = msgs,
                  !.base = IF first THEN r.messages ELSE @,
                  !.appended = IF first THEN Bump(@, "trigger") ELSE @]

\* the response arrived: the agent turn is appended and the chain branches
\* an auto-queue test that does not look at the generated text
AutoQueuesWhateverText(cfg, aiContent) == cfg.autoQueue

\* cfg.autoQueue && aiContent.trim()
AutoQueues(cfg, aiContent) == cfg.autoQueue /\ Truthy(Trim(aiContent))

ExecutorBranch(ch, resp) ==
    LET aiContent == Or(resp.content, "")
        toolCalls == resp.tool_calls
        withAi == [ch EXCEPT !.messages = Append(@, AgentTurn(ch.characterName, aiContent)),
                             !.appended = Bump(@, "agent"),
                             !.gens = @ + 1,
                             !.last = resp,
                             !.first = IF ch.gens = 0 /\ toolCalls # <<>>
                                          /\ toolCalls[1].name = "finish"
                                       THEN resp ELSE @]
        toolResult == executeToolCalls(toolCalls)
    IN IF Len(toolCalls) > 0 THEN
           IF toolResult.finished THEN
               [withAi EXCEPT !.finished = TRUE, !.pc = "write", !.last = resp,
                              !.messages = Append(@, FinishTurn(toolResult.result)),
                              !.appended = Bump(@, "system")]
           ELSE
               ExecutorEnter([withAi EXCEPT !.messages = Append(@, ToolTurn(toolResult.results)),
                                            !.appended = Bump(@, "tool")],
                             ch.depth + 1)
       ELSE IF AutoQueues(ch.cfg, aiContent) THEN
           ExecutorEnter([withAi EXCEPT !.messages = Append(@, ContinueTurn(ch.metadata, ch.cfg)),
                                        !.appended = Bump(@, "cont")],
                         ch.depth + 1)
       ELSE [withAi EXCEPT !.pc = "write", !.last = resp]

\* a save that returns true whatever the chain did
ExecutorSavedTrue(ch) ==
    [ch EXCEPT !.pc = "returned", !.ret = "true",
               !.writes = @ + 1, !.written = ch.messages]

\* writeChatFile resolved: the chain returns `finished`
ExecutorSaved(ch) ==
    [ch EXCEPT !.pc = "returned", !.ret = IF ch.finished THEN "true" ELSE "false",
               !.writes = @ + 1, !.written = ch.messages]

\* an awaited call rejected: nothing in fireSubroutineTrigger catches it
Threw(ch, at) == [ch EXCEPT !.pc = "threw", !.ret = "threw", !.failedAt = at]

-----------------------------------------------------------------------------
(* Initial states *)

ChainIds == 1..MaxChains
ReqIds == 1..MaxReqs
TimerIds == 1..MaxTimers

StoredConfigs == {createSubroutineMetadata(c) : c \in Configs}

PathOf(conv) == ChatFilePath(conv.characterName, conv.chatName)
KeyOf(conv) == TriggerKey(conv.characterName, conv.chatName)
ConvAt(path) == CHOOSE conv \in Convs : PathOf(conv) = path

\* the conversation the executor is exercised on when it runs on its own
ExecConv == AllConvs[1]

\* well-formed records: a header and the turns of earlier cycles
GoodFiles(conv) ==
    {writeChatFile(HeaderOf(conv, c), m) : c \in Configs, m \in {<<>>, <<OldTurn>>}}

\* records readChatFile rejects: missing, empty, not JSON
BrokenFiles ==
    {NoFile, FileOf(<<>>), FileOf(<<BlankLine>>), FileOf(<<BadLine>>),
     FileOf(<<JsonHeader(HeaderOf(ExecConv, BaseConfig)), BadLine>>)}

NoJob == [type |-> "none", timer |-> 0, cfg |-> NoCfg, chatFilePath |-> Undefined,
          characterName |-> Undefined]

NoTimer == [state |-> "unused", key |-> Undefined, cfg |-> NoCfg,
            chatFilePath |-> Undefined, characterName |-> Undefined,
            metadata |-> NoMetadata]

NoReq == [pc |-> "idle", route |-> "none", conv |-> AllConvs[1], metadata |-> NoMetadata,
          messages |-> <<>>, status |-> 0, stopped |-> FALSE, changed |-> FALSE]

InitCommon ==
    /\ activeTriggers = [k \in Keys |-> NoJob]
    /\ timers = [t \in TimerIds |-> NoTimer]
    /\ reqs = [r \in ReqIds |-> NoReq]
    /\ chains = [c \in ChainIds |-> IdleChain]
    /\ cycles = 0
    /\ uncaught = 0
    /\ exited = FALSE

-----------------------------------------------------------------------------
(* The timer callback: try { await fireSubroutineTrigger(...) } catch { log } *)

\* a callback that lets the rejection through
TimerCallbackRethrows(ch) == ch

\* the catch block of the setInterval callback
TimerCallback(ch) ==
    IF ch.origin # 0 /\ ch.pc = "threw" THEN [ch EXCEPT !.pc = "caught"] ELSE ch

\* an error of a timer's chain that nothing caught
Escaped(ch) == ch.origin # 0 /\ ch.pc = "threw"

\* a chain moves on; what it throws goes to whoever awaits it
StepChain(c, ch) ==
    /\ chains' = [chains EXCEPT ![c] = TimerCallback(ch)]
    /\ uncaught' = IF Escaped(TimerCallback(ch)) THEN uncaught + 1 ELSE uncaught

-----------------------------------------------------------------------------
(* Steps of a chain of triggers/executor.js *)

InFlight(ch) == ch.pc \in {"read", "gen", "write"}

\* the configuration a caller hands to a cycle: the stored one, as the routes
\* read it (metadata.chat_metadata.subroutine_config)
ConfigFor(file) ==
    IF readChatFile(file).ok /\ isSubroutine(readChatFile(file).metadata)
    THEN {readChatFile(file).metadata.subroutine_config}
    ELSE {createSubroutineMetadata(BaseConfig)}

\* a caller awaits fireSubroutineTrigger(characterName, chatName, cfg, chatFilePath)
Invoke(c, conv, cfg) ==
    /\ cycles < MaxInvocations
    /\ \A d \in ChainIds : ~InFlight(chains[d])
    /\ c = 1
    /\ conv = ExecConv
    /\ chains' = [chains EXCEPT ![c] =
          ExecutorEnter([IdleChain EXCEPT !.impl = "executor",
                                          !.before = disk[PathOf(conv)],
                                          !.characterName = conv.characterName,
                                          !.cfg = cfg,
                                          !.chatFilePath = PathOf(conv)], 0)]
    /\ cycles' = cycles + 1
    /\ UNCHANGED <<build, exited, disk, activeTriggers, timers, reqs, uncaught>>

ExecRead(c) ==
    /\ chains[c].pc = "read"
    /\ chains[c].impl = "executor"
    /\ LET r == ReadAt(chains[c].chatFilePath) IN
       StepChain(c, IF r.ok THEN ExecutorLoaded(chains[c], r) ELSE Threw(chains[c], "load"))
    /\ UNCHANGED <<build, exited, disk, activeTriggers, timers, reqs, cycles>>

ExecGenerate(c) ==
    /\ chains[c].pc = "gen"
    /\ chains[c].impl = "executor"
    /\ \E resp \in Responses : StepChain(c, ExecutorBranch(chains[c], resp))
    /\ UNCHANGED <<build, exited, disk, activeTriggers, timers, reqs, cycles>>

\* getStatusAsync or generateOpenAIResponse rejects
ExecGenerateFails(c) ==
    /\ chains[c].pc = "gen"
    /\ chains[c].impl = "executor"
    /\ StepChain(c, Threw(chains[c], "generate"))
    /\ UNCHANGED <<build, exited, disk, activeTriggers, timers, reqs, cycles>>

ExecWrite(c) ==
    /\ chains[c].pc = "write"
    /\ chains[c].impl = "executor"
    /\ disk' = [disk EXCEPT ![chains[c].chatFilePath] =
                   writeChatFile(chains[c].metadata, chains[c].messages)]
    /\ StepChain(c, ExecutorSaved(chains[c]))
    /\ UNCHANGED <<build, exited, activeTriggers, timers, reqs, cycles>>

ExecWriteFails(c) ==
    /\ chains[c].pc = "write"
    /\ chains[c].impl = "executor"
    /\ \E f \in FailedWriteOutcomes(disk[chains[c].chatFilePath],
                                    chains[c].metadata, chains[c].messages) :
          disk' = [disk EXCEPT ![chains[c].chatFilePath] = f]
    /\ StepChain(c, Threw(chains[c], "write"))
    /\ UNCHANGED <<build, exited, activeTriggers, timers, reqs, cycles>>

-----------------------------------------------------------------------------
(* The executor on its own: fireSubroutineTrigger called with its documented
   arguments, one chain at a time *)

InitExec ==
    /\ build = [program |-> "modular", executor |-> "executor"]
    /\ \E f \in GoodFiles(ExecConv) \cup BrokenFiles :
          disk = [p \in Paths |-> IF p = PathOf(ExecConv) THEN f ELSE NoFile]
    /\ InitCommon

NextExec ==
    \/ \E c \in ChainIds, conv \in Convs :
          \E cfg \in ConfigFor(disk[PathOf(conv)]) : Invoke(c, conv, cfg)
    \/ \E c \in ChainIds : ExecRead(c)
    \/ \E c \in ChainIds : ExecGenerate(c)
    \/ \E c \in ChainIds : ExecGenerateFails(c)
    \/ \E c \in ChainIds : ExecWrite(c)
    \/ \E c \in ChainIds : ExecWriteFails(c)

SpecExec == InitExec /\ [][NextExec]_vars

-----------------------------------------------------------------------------
(* The registry of triggers/manager.js *)

\* a lookup that never finds an entry
HasNothing(reg, key) == FALSE

\* activeTriggers.has(key)
Has(reg, key) == reg[key].type # "none"

\* the handle the next setInterval returns
FreshTimer(tms) == CHOOSE t \in TimerIds : tms[t].state = "unused" /\ \A u \in TimerIds : tms[u].state = "unused" => t <= u

\* setInterval(callback, intervalMs): the closure keeps what the callback uses
SetInterval(tms, key, cfg, chatFilePath, characterName, metadata) ==
    [tms EXCEPT ![FreshTimer(tms)] =
        [state |-> "live", key |-> key, cfg |-> cfg, chatFilePath |-> chatFilePath,
         characterName |-> characterName, metadata |-> metadata]]

\* clearInterval(timer)
ClearInterval(tms, t) == [tms EXCEPT ![t].state = "cleared"]

\* a start that refuses every key as already running
startTriggerRefuses(reg, tms, key, cfg, chatFilePath, characterName) ==
    [result |-> "false", reg |-> reg, tms |-> tms]

\* startTrigger(key, cfg, chatFilePath, characterName): "true", "false" or "throw"
startTrigger(reg, tms, key, cfg, chatFilePath, characterName) ==
    IF Has(reg, key) THEN [result |-> "false", reg |-> reg, tms |-> tms]
    ELSE IF cfg.triggerType = "time-based" THEN
        IF cfg.interval < 1 THEN [result |-> "throw", reg |-> reg, tms |-> tms]
        ELSE [result |-> "true",
              reg |-> [reg EXCEPT ![key] = [type |-> "interval", timer |-> FreshTimer(tms),
                                           cfg |-> cfg, chatFilePath |-> chatFilePath,
                                           characterName |-> characterName]],
              tms |-> SetInterval(tms, key, cfg, chatFilePath, characterName, NoMetadata)]
    ELSE IF cfg.triggerType = "tool-based" THEN
        [result |-> "true",
         reg |-> [reg EXCEPT ![key] = [type |-> "tool-based", timer |-> 0, cfg |-> cfg,
                                      chatFilePath |-> chatFilePath,
                                      characterName |-> characterName]],
         tms |-> tms]
    ELSE IF cfg.triggerType = "api-based" THEN
        [result |-> "true",
         reg |-> [reg EXCEPT ![key] = [type |-> "api", timer |-> 0, cfg |-> cfg,
                                      chatFilePath |-> chatFilePath,
                                      characterName |-> characterName]],
         tms |-> tms]
    ELSE [result |-> "throw", reg |-> reg, tms |-> tms]

\* a stop that clears the timer and forgets to delete the entry
stopTriggerKeepsEntry(reg, tms, key) ==
    IF ~Has(reg, key) THEN [result |-> FALSE, reg |-> reg, tms |-> tms]
    ELSE [result |-> TRUE, reg |-> reg,
          tms |-> IF reg[key].type = "interval" /\ reg[key].timer # 0
                  THEN ClearInterval(tms, reg[key].timer) ELSE tms]

\* a stop that deletes the entry and leaves its timer running
stopTriggerKeepsTimer(reg, tms, key) ==
    IF ~Has(reg, key) THEN [result |-> FALSE, reg |-> reg, tms |-> tms]
    ELSE [result |-> TRUE, reg |-> [reg EXCEPT ![key] = NoJob], tms |-> tms]

\* stopTrigger(key)
stopTrigger(reg, tms, key) ==
    IF ~Has(reg, key) THEN [result |-> FALSE, reg |-> reg, tms |-> tms]
    ELSE [result |-> TRUE,
          reg |-> [reg EXCEPT ![key] = NoJob],
          tms |-> IF reg[key].type = "interval" /\ reg[key].timer # 0
                  THEN ClearInterval(tms, reg[key].timer) ELSE tms]

\* shutdownTriggers(): clearInterval for every interval job, then clear()
shutdownTriggers(reg, tms) ==
    [reg |-> [k \in DOMAIN reg |-> NoJob],
     tms |-> [t \in DOMAIN tms |->
                IF \E k \in DOMAIN reg :
                      reg[k].type = "interval" /\ reg[k].timer # 0 /\ reg[k].timer = t
                THEN [tms[t] EXCEPT !.state = "cleared"] ELSE tms[t]]]

-----------------------------------------------------------------------------
(* The registry inlined in the start and stop routes of the monolith *)

\* exit(): for every entry, clearInterval if it is an interval job, delete
MonolithExit(reg, tms) ==
    [reg |-> [k \in DOMAIN reg |-> NoJob],
     tms |-> [t \in DOMAIN tms |->
                IF \E k \in DOMAIN reg : reg[k].type = "interval" /\ reg[k].timer = t
                THEN [tms[t] EXCEPT !.state = "cleared"] ELSE tms[t]]]

\* after the already-running check and the write of active = true:
\* the branch on cfg.triggerType (no check of the interval)
MonolithRegister(reg, tms, key, cfg, chatFilePath, characterName, metadata) ==
    IF cfg.triggerType = "time-based" THEN
        [status |-> 200,
         reg |-> [reg EXCEPT ![key] = [type |-> "interval", timer |-> FreshTimer(tms),
                                      cfg |-> NoCfg, chatFilePath |-> Undefined,
                                      characterName |-> Undefined]],
         tms |-> SetInterval(tms, key, cfg, chatFilePath, characterName, metadata)]
    ELSE IF cfg.triggerType = "tool-based" THEN
        [status |-> 501, reg |-> reg, tms |-> tms]
    ELSE IF cfg.triggerType = "api-based" THEN
        [status |-> 200,
         reg |-> [reg EXCEPT ![key] = [type |-> "api", timer |-> 0, cfg |-> NoCfg,
                                      chatFilePath |-> Undefined,
                                      characterName |-> Undefined]],
         tms |-> tms]
    ELSE [status |-> 200, reg |-> reg, tms |-> tms]

\* const job = activeTriggers.get(key); if (job) { clearInterval; delete }
MonolithUnregister(reg, tms, key) ==
    IF ~Has(reg, key) THEN [reg |-> reg, tms |-> tms]
    ELSE [reg |-> [reg EXCEPT ![key] = NoJob],
          tms |-> IF reg[key].type = "interval"
                  THEN ClearInterval(tms, reg[key].timer) ELSE tms]

-----------------------------------------------------------------------------
(* The executors without a depth guard: the one inlined in the monolith
   ("inline") and the earlier triggers/executor.js ("legacy").  The depth of
   a chain is kept by the model only, to bound the recursion. *)

\* what fakeGenerateWithTools returns
fakeGenerateWithTools ==
    [content |-> "I'm thinking... (placeholder response)", tool_calls |-> <<>>]

OldTriggerTurn(impl, metadata, cfg) ==
    [name |-> IF impl = "inline" THEN metadata.user_name ELSE Or(metadata.user_name, "System"),
     mes |-> Or(Or(cfg.triggerText, cfg.fallbackTriggerText),
                IF impl = "inline" THEN "(Trigger activated)" ELSE "(trigger activated)"),
     is_user |-> TRUE,
     is_system |-> cfg.triggerRole = "system"]

OldAgentTurn(impl, ch, aiContent) ==
    [name |-> IF impl = "inline" THEN ch.metadata.character_name ELSE ch.characterName,
     mes |-> IF impl = "inline" THEN aiContent ELSE Or(aiContent, "(no response generated)"),
     is_user |-> FALSE, is_system |-> FALSE]

OldToolTurn(impl, metadata) ==
    [name |-> IF impl = "inline" THEN metadata.user_name ELSE "tool",
     mes |-> IF impl = "inline" THEN "{}" ELSE "{status:not_implemented_yet}",
     is_user |-> TRUE, is_system |-> FALSE]

OldContinueTurn(impl, metadata, cfg) ==
    [name |-> IF impl = "inline" THEN metadata.user_name ELSE Or(metadata.user_name, "System"),
     mes |-> Or(cfg.autoQueuePrompt,
                IF impl = "inline" THEN "Continue your reasoning and take the next action."
                ELSE "Continue your current task. Think step by step and decide on the next action."),
     is_user |-> TRUE, is_system |-> FALSE]

\* the function is entered: readChatFile is awaited
OldEnter(ch, depth) ==
    [ch EXCEPT !.depth = depth, !.pc = "read", !.messages = <<>>]

\* readChatFile resolved: the trigger turn is appended at every depth.  The
\* inline executor keeps the metadata object the start route read.
OldLoaded(ch, r) ==
    LET metadata == IF ch.impl = "inline" THEN ch.metadata ELSE r.metadata IN
    [ch EXCEPT !.pc = "gen", !.metadata = metadata,
               !.messages = Append(r.messages, OldTriggerTurn(ch.impl, metadata, ch.cfg)),
               !.base = IF ch.depth = 0 THEN r.messages ELSE @,
               !.appended = Bump(@, "trigger")]

\* the response arrived
OldBranch(ch, resp) ==
    LET withAi == [ch EXCEPT !.messages = Append(@, OldAgentTurn(ch.impl, ch, resp.content)),
                             !.appended = Bump(@, "agent"),
                             !.gens = @ + 1]
    IN IF Len(resp.tool_calls) > 0 THEN
           OldEnter([withAi EXCEPT !.messages = Append(@, OldToolTurn(ch.impl, ch.metadata)),
                                   !.appended = Bump(@, "tool")], ch.depth + 1)
       ELSE IF ch.cfg.autoQueue THEN
           OldEnter([withAi EXCEPT !.messages = Append(@, OldContinueTurn(ch.impl, ch.metadata, ch.cfg)),
                                   !.appended = Bump(@, "cont")], ch.depth + 1)
       ELSE [withAi EXCEPT !.pc = "write", !.last = resp]

\* writeChatFile resolved
OldSaved(ch) ==
    [ch EXCEPT !.pc = "returned", !.ret = "undefined", !.writes = @ + 1,
               !.written = ch.messages]

\* the inline executor stores the content as it is and looks only at the
\* number of tool calls
InlineResponses == [content : {"text"}, tool_calls : {<<>>, <<OtherCall>>}]

OldResponses(impl) == IF impl = "inline" THEN InlineResponses ELSE {fakeGenerateWithTools}

IsOld(ch) == ch.impl \in {"inline", "legacy"}

OldRead(c) ==
    /\ chains[c].pc = "read"
    /\ IsOld(chains[c])
    /\ LET r == ReadAt(chains[c].chatFilePath) IN
       StepChain(c, IF r.ok THEN OldLoaded(chains[c], r) ELSE Threw(chains[c], "load"))
    /\ UNCHANGED <<build, exited, disk, activeTriggers, timers, reqs, cycles>>

OldGenerate(c) ==
    /\ chains[c].pc = "gen"
    /\ IsOld(chains[c])
    /\ \E resp \in OldResponses(chains[c].impl) :
          /\ OldBranch(chains[c], resp).depth <= MaxInlineDepth
          /\ StepChain(c, OldBranch(chains[c], resp))
    /\ UNCHANGED <<build, exited, disk, activeTriggers, timers, reqs, cycles>>

\* getStatusAsync or generateOpenAIResponse rejects (inline executor)
OldGenerateFails(c) ==
    /\ chains[c].pc = "gen"
    /\ chains[c].impl = "inline"
    /\ StepChain(c, Threw(chains[c], "generate"))
    /\ UNCHANGED <<build, exited, disk, activeTriggers, timers, reqs, cycles>>

OldWrite(c) ==
    /\ chains[c].pc = "write"
    /\ IsOld(chains[c])
    /\ disk' = [disk EXCEPT ![chains[c].chatFilePath] =
                   writeChatFile(chains[c].metadata, chains[c].messages)]
    /\ StepChain(c, OldSaved(chains[c]))
    /\ UNCHANGED <<build, exited, activeTriggers, timers, reqs, cycles>>

OldWriteFails(c) ==
    /\ chains[c].pc = "write"
    /\ IsOld(chains[c])
    /\ \E f \in FailedWriteOutcomes(disk[chains[c].chatFilePath],
                                    chains[c].metadata, chains[c].messages) :
          disk' = [disk EXCEPT ![chains[c].chatFilePath] = f]
    /\ StepChain(c, Threw(chains[c], "write"))
    /\ UNCHANGED <<build, exited, activeTriggers, timers, reqs, cycles>>

-----------------------------------------------------------------------------
(* A tick of an interval timer *)

\* the chain slot a new call takes
FreeChain == CHOOSE c \in ChainIds : ~InFlight(chains[c]) /\ \A d \in ChainIds : ~InFlight(chains[d]) => c <= d

\* a callback that takes up the failed work one depth down instead of
\* starting over
ManagerCallResumes(t) ==
    LET tm == timers[t] IN
    OldEnter([IdleChain EXCEPT !.origin = t, !.key = tm.key, !.impl = "legacy",
                               !.characterName = tm.characterName, !.cfg = tm.cfg,
                               !.chatFilePath = tm.chatFilePath,
                               !.before = disk[tm.chatFilePath]], 1)

\* manager.js calls fireSubroutineTrigger(characterName, cfg, chatFilePath).
\* triggers/executor.js declares (characterName, chatName, cfg, chatFilePath,
\* depth = 0): the arguments bind by position, so its cfg is the path string
\* (whose properties are all undefined) and its chatFilePath is undefined;
\* readChatFile(undefined) rejects before any I/O.  The earlier executor
\* declares the three parameters the manager passes.
ManagerCall(t) ==
    LET tm == timers[t]
        call == [IdleChain EXCEPT !.origin = t, !.key = tm.key,
                                  !.characterName = tm.characterName] IN
    IF build.executor = "executor" THEN
        Threw(ExecutorEnter([call EXCEPT !.impl = "executor", !.cfg = NoCfg,
                                         !.chatFilePath = Undefined], 0), "load")
    ELSE
        OldEnter([call EXCEPT !.impl = "legacy", !.cfg = tm.cfg,
                              !.chatFilePath = tm.chatFilePath,
                              !.before = disk[tm.chatFilePath]], 0)

\* the monolith calls its own fireSubroutineTrigger(characterName, chatName,
\* cfg, chatFilePath, metadata) with the metadata object of the start route
MonolithCall(t) ==
    LET tm == timers[t] IN
    OldEnter([IdleChain EXCEPT !.origin = t, !.key = tm.key, !.impl = "inline",
                               !.characterName = tm.characterName, !.cfg = tm.cfg,
                               !.chatFilePath = tm.chatFilePath,
                               !.metadata = tm.metadata,
                               !.before = disk[tm.chatFilePath]], 0)

Tick(t) ==
    /\ timers[t].state = "live"
    /\ cycles < MaxCycles
    /\ \E c \in ChainIds : ~InFlight(chains[c])
    /\ StepChain(FreeChain, IF build.program = "modular" THEN ManagerCall(t) ELSE MonolithCall(t))
    /\ cycles' = cycles + 1
    /\ UNCHANGED <<build, exited, disk, activeTriggers, timers, reqs>>

\* the inline executor requires SillyTavern's server modules before anything
\* else; a missing module rejects the call
OldRequireFails(c) ==
    /\ chains[c].pc = "read"
    /\ chains[c].impl = "inline"
    /\ StepChain(c, Threw(chains[c], "require"))
    /\ UNCHANGED <<build, exited, disk, activeTriggers, timers, reqs, cycles>>

-----------------------------------------------------------------------------
(* The routes POST /triggers/:characterName/:chatName/start and /stop.
   A request is a slot of reqs; its pc is the await it is suspended at. *)

Respond(req, status) == [req EXCEPT !.pc = "done", !.status = status]

\* the slot the next request takes
FreeReq(r) == reqs[r].pc = "idle" /\ \A q \in ReqIds : q < r => reqs[q].pc # "idle"

\* the request arrives: readChatFile is awaited
StartRequest(r, conv) ==
    /\ ~exited
    /\ FreeReq(r)
    /\ reqs' = [reqs EXCEPT ![r] = [NoReq EXCEPT !.pc = "read", !.route = "start", !.conv = conv]]
    /\ UNCHANGED <<build, exited, disk, activeTriggers, timers, chains, cycles, uncaught>>

\* routes/triggers.js: from the resolved read to the write or the response
ModularStartRead(r) ==
    LET req == reqs[r]
        key == KeyOf(req.conv)
        rd == ReadAt(PathOf(req.conv))
        cfg == rd.metadata.subroutine_config
        st == startTrigger(activeTriggers, timers, key, cfg, PathOf(req.conv),
                           rd.metadata.character_name)
        \* cfg.active = true changes the object the entry and the closure hold
        regA == [st.reg EXCEPT ![key].cfg.active = TRUE]
        tmsA == IF st.reg[key].type = "interval"
                THEN [st.tms EXCEPT ![st.reg[key].timer].cfg.active = TRUE] ELSE st.tms
    IN
    IF ~rd.ok THEN
        /\ reqs' = [reqs EXCEPT ![r] = Respond(req, IF rd.err = "ENOENT" THEN 404 ELSE 500)]
        /\ UNCHANGED <<activeTriggers, timers>>
    ELSE IF ~isSubroutine(rd.metadata) THEN
        /\ reqs' = [reqs EXCEPT ![r] = Respond(req, 400)]
        /\ UNCHANGED <<activeTriggers, timers>>
    ELSE IF st.result = "throw" THEN
        /\ reqs' = [reqs EXCEPT ![r] = Respond(req, 500)]
        /\ UNCHANGED <<activeTriggers, timers>>
    ELSE IF st.result = "false" THEN
        /\ reqs' = [reqs EXCEPT ![r] = Respond(req, 409)]
        /\ UNCHANGED <<activeTriggers, timers>>
    ELSE IF ~cfg.active THEN
        /\ reqs' = [reqs EXCEPT ![r] =
               [req EXCEPT !.pc = "write", !.changed = TRUE, !.messages = rd.messages,
                           !.metadata = [rd.metadata EXCEPT !.subroutine_config.active = TRUE]]]
        /\ activeTriggers' = regA
        /\ timers' = tmsA
    ELSE
        /\ reqs' = [reqs EXCEPT ![r] = Respond([req EXCEPT !.changed = TRUE], 200)]
        /\ activeTriggers' = st.reg
        /\ timers' = st.tms

\* the monolith: from the resolved read to the write or the response
MonolithStartRead(r) ==
    LET req == reqs[r]
        key == KeyOf(req.conv)
        rd == ReadAt(PathOf(req.conv))
        cfg == rd.metadata.subroutine_config
        mr == MonolithRegister(activeTriggers, timers, key, cfg, PathOf(req.conv),
                               req.conv.characterName, rd.metadata)
    IN
    IF ~rd.ok THEN
        /\ reqs' = [reqs EXCEPT ![r] = Respond(req, 500)]
        /\ UNCHANGED <<activeTriggers, timers>>
    ELSE IF Has(activeTriggers, key) THEN
        /\ reqs' = [reqs EXCEPT ![r] = Respond(req, 409)]
        /\ UNCHANGED <<activeTriggers, timers>>
    ELSE IF ~isSubroutine(rd.metadata) THEN
        \* cfg is undefined: cfg.active throws a TypeError
        /\ reqs' = [reqs EXCEPT ![r] = Respond(req, 500)]
        /\ UNCHANGED <<activeTriggers, timers>>
    ELSE IF ~cfg.active THEN
        /\ reqs' = [reqs EXCEPT ![r] =
               [req EXCEPT !.pc = "write", !.messages = <<>>,
                           !.metadata = [rd.metadata EXCEPT !.subroutine_config.active = TRUE]]]
        /\ UNCHANGED <<activeTriggers, timers>>
    ELSE
        /\ reqs' = [reqs EXCEPT ![r] = Respond([req EXCEPT !.changed = mr.reg # activeTriggers],
                                               mr.status)]
        /\ activeTriggers' = mr.reg
        /\ timers' = mr.tms

StartRead(r) ==
    /\ reqs[r].pc = "read"
    /\ reqs[r].route = "start"
    /\ \E t \in TimerIds : timers[t].state = "unused"
    /\ IF build.program = "modular" THEN ModularStartRead(r) ELSE MonolithStartRead(r)
    /\ UNCHANGED <<build, exited, disk, chains, cycles, uncaught>>

\* the write of active = true resolved.  The monolith registers the job only
\* now, from the objects it read before the write.
StartWrite(r) ==
    /\ reqs[r].pc = "write"
    /\ reqs[r].route = "start"
    /\ \E t \in TimerIds : timers[t].state = "unused"
    /\ disk' = [disk EXCEPT ![PathOf(reqs[r].conv)] =
                   writeChatFile(reqs[r].metadata, reqs[r].messages)]
    /\ IF build.program = "modular" THEN
          /\ reqs' = [reqs EXCEPT ![r] = Respond(reqs[r], 200)]
          /\ UNCHANGED <<activeTriggers, timers>>
       ELSE
          LET mr == MonolithRegister(activeTriggers, timers, KeyOf(reqs[r].conv),
                                     reqs[r].metadata.subroutine_config,
                                     PathOf(reqs[r].conv), reqs[r].conv.characterName,
                                     reqs[r].metadata) IN
          /\ reqs' = [reqs EXCEPT ![r] =
                 Respond([reqs[r] EXCEPT !.changed = mr.reg # activeTriggers], mr.status)]
          /\ activeTriggers' = mr.reg
          /\ timers' = mr.tms
    /\ UNCHANGED <<build, exited, chains, cycles, uncaught>>

\* the write rejected: the catch answers 500; what startTrigger registered stays
StartWriteFails(r) ==
    /\ reqs[r].pc = "write"
    /\ reqs[r].route = "start"
    /\ \E f \in FailedWriteOutcomes(disk[PathOf(reqs[r].conv)], reqs[r].metadata,
                                    reqs[r].messages) :
          disk' = [disk EXCEPT ![PathOf(reqs[r].conv)] = f]
    /\ reqs' = [reqs EXCEPT ![r] = Respond(reqs[r], 500)]
    /\ UNCHANGED <<build, exited, activeTriggers, timers, chains, cycles, uncaught>>

\* a stop whose registry step also rewrites the record with active = false
StopRequestClearsFlag(r, conv) ==
    /\ ~exited
    /\ FreeReq(r)
    /\ LET st == stopTrigger(activeTriggers, timers, KeyOf(conv))
           rd == ReadAt(PathOf(conv)) IN
       /\ reqs' = [reqs EXCEPT ![r] =
              Respond([NoReq EXCEPT !.route = "stop", !.conv = conv, !.stopped = st.result],
                      IF st.result THEN 200 ELSE 404)]
       /\ activeTriggers' = st.reg
       /\ timers' = st.tms
       /\ disk' = IF rd.ok
                  THEN [disk EXCEPT ![PathOf(conv)] =
                           writeChatFile([rd.metadata EXCEPT !.subroutine_config.active = FALSE],
                                         rd.messages)]
                  ELSE disk
    /\ UNCHANGED <<build, exited, chains, cycles, uncaught>>

\* the stop request arrives; the job is removed before the first I/O
StopRequest(r, conv) ==
    /\ ~exited
    /\ FreeReq(r)
    /\ LET req == [NoReq EXCEPT !.route = "stop", !.conv = conv]
           key == KeyOf(conv)
           st == stopTrigger(activeTriggers, timers, key)
           mu == MonolithUnregister(activeTriggers, timers, key) IN
       IF build.program = "modular" THEN
          /\ reqs' = [reqs EXCEPT ![r] =
                 IF st.result THEN [req EXCEPT !.pc = "read", !.stopped = TRUE]
                 ELSE Respond(req, 404)]
          /\ activeTriggers' = st.reg
          /\ timers' = st.tms
       ELSE
          /\ reqs' = [reqs EXCEPT ![r] =
                 [req EXCEPT !.pc = "read", !.stopped = Has(activeTriggers, key)]]
          /\ activeTriggers' = mu.reg
          /\ timers' = mu.tms
    /\ UNCHANGED <<build, exited, disk, chains, cycles, uncaught>>

\* the status a stop request answers when its read or write fails
StopFailureStatus == IF build.program = "modular" THEN 200 ELSE 500

StopRead(r) ==
    /\ reqs[r].pc = "read"
    /\ reqs[r].route = "stop"
    /\ LET rd == ReadAt(PathOf(reqs[r].conv)) IN
       reqs' = [reqs EXCEPT ![r] =
           IF ~rd.ok THEN Respond(reqs[r], StopFailureStatus)
           ELSE IF ~isSubroutine(rd.metadata) THEN Respond(reqs[r], StopFailureStatus)
           ELSE [reqs[r] EXCEPT !.pc = "write", !.messages = rd.messages,
                    !.metadata = [rd.metadata EXCEPT !.subroutine_config.active = FALSE]]]
    /\ UNCHANGED <<build, exited, disk, activeTriggers, timers, chains, cycles, uncaught>>

StopWrite(r) ==
    /\ reqs[r].pc = "write"
    /\ reqs[r].route = "stop"
    /\ disk' = [disk EXCEPT ![PathOf(reqs[r].conv)] =
                   writeChatFile(reqs[r].metadata, reqs[r].messages)]
    /\ reqs' = [reqs EXCEPT ![r] = Respond(reqs[r], 200)]
    /\ UNCHANGED <<build, exited, activeTriggers, timers, chains, cycles, uncaught>>

StopWriteFails(r) ==
    /\ reqs[r].pc = "write"
    /\ reqs[r].route = "stop"
    /\ \E f \in FailedWriteOutcomes(disk[PathOf(reqs[r].conv)], reqs[r].metadata,
                                    reqs[r].messages) :
          disk' = [disk EXCEPT ![PathOf(reqs[r].conv)] = f]
    /\ reqs' = [reqs EXCEPT ![r] = Respond(reqs[r], StopFailureStatus)]
    /\ UNCHANGED <<build, exited, activeTriggers, timers, chains, cycles, uncaught>>

-----------------------------------------------------------------------------
(* Teardown: the host calls the plugin's exit() once.  From then on the
   server hands the routes no new request; what is already pending (a request
   at an await, a cycle, a timer that was not cleared) may still run until
   the process ends. *)

Exit ==
    /\ ~exited
    /\ exited' = TRUE
    /\ LET sd == IF build.program = "modular"
                 THEN shutdownTriggers(activeTriggers, timers)
                 ELSE MonolithExit(activeTriggers, timers) IN
       /\ activeTriggers' = sd.reg
       /\ timers' = sd.tms
    /\ UNCHANGED <<build, disk, reqs, chains, cycles, uncaught>>

-----------------------------------------------------------------------------
(* The plugin as a whole *)

\* the generations of the plugin that the source holds: the single-file
\* plugin with its own executor, and the modules with either executor
Builds ==
    {[program |-> "monolith", executor |-> "inline"],
     [program |-> "modular", executor |-> "executor"],
     [program |-> "modular", executor |-> "legacy"]}

\* the header of a chat that is not a subroutine
PlainHeader(conv) ==
    [NoMetadata EXCEPT !.user_name = "User", !.character_name = conv.characterName]

\* a chat file as the host application stores it: one JSON text per line
StoredFile(metadata, messages) ==
    FileOf(<<JsonHeader(metadata)>> \o [i \in 1..Len(messages) |-> JsonTurn(messages[i])])

\* a file that another writer ended with an empty line
WithBlankLine(file) == FileOf(Append(file.lines, BlankLine))

\* the files a server can find at start-up: subroutine chats as created or as
\* an earlier run left them (active = true), one of them ending with an empty
\* line, a plain chat, no file
SystemFiles(conv) ==
    {IF c.triggerType = "api-based"
     THEN WithBlankLine(StoredFile(HeaderOf(conv, c), <<OldTurn>>))
     ELSE StoredFile(HeaderOf(conv, c), <<OldTurn>>) :
        c \in Configs \cup {[BaseConfig EXCEPT !.active = TRUE]}}
    \cup {StoredFile(PlainHeader(conv), <<OldTurn>>), NoFile}

Init ==
    /\ build \in Builds
    /\ disk \in [Paths -> UNION {SystemFiles(conv) : conv \in Convs}]
    /\ \A conv \in Convs : disk[PathOf(conv)] \in SystemFiles(conv)
    /\ InitCommon

Next ==
    \/ \E r \in ReqIds, conv \in Convs : StartRequest(r, conv)
    \/ \E r \in ReqIds : StartRead(r)
    \/ \E r \in ReqIds : StartWrite(r)
    \/ \E r \in ReqIds : StartWriteFails(r)
    \/ \E r \in ReqIds, conv \in Convs : StopRequest(r, conv)
    \/ \E r \in ReqIds : StopRead(r)
    \/ \E r \in ReqIds : StopWrite(r)
    \/ \E r \in ReqIds : StopWriteFails(r)
    \/ \E t \in TimerIds : Tick(t)
    \/ Exit
    \/ \E c \in ChainIds : OldRead(c)
    \/ \E c \in ChainIds : OldRequireFails(c)
    \/ \E c \in ChainIds : OldGenerate(c)
    \/ \E c \in ChainIds : OldGenerateFails(c)
    \/ \E c \in ChainIds : OldWrite(c)
    \/ \E c \in ChainIds : OldWriteFails(c)

Spec == Init /\ [][Next]_vars

-----------------------------------------------------------------------------
(* The keys of the registry on their own: requests for conversations whose
   names are URL path segments.  Express hands the routes any segment, and
   neither route changes it before building the key and the path. *)

Names == {"a", "b", "a|b", "b|a"}

NamePairs == [characterName : Names, chatName : Names]

NamedKeys == {TriggerKey(c.characterName, c.chatName) : c \in NamePairs}

\* the requests to come, each for a conversation that exists as a subroutine
InitKeys ==
    /\ build = [program |-> "modular", executor |-> "executor"]
    /\ disk = [p \in Paths |-> NoFile]
    /\ activeTriggers = [k \in NamedKeys |-> NoJob]
    /\ timers = [t \in TimerIds |-> NoTimer]
    /\ reqs \in [ReqIds -> {[NoReq EXCEPT !.conv = c] : c \in NamePairs}]
    /\ chains = [c \in ChainIds |-> IdleChain]
    /\ cycles = 0
    /\ uncaught = 0
    /\ exited = FALSE

\* POST start: the key is built and startTrigger runs
KeyStart(r) ==
    /\ reqs[r].pc = "idle"
    /\ \E t \in TimerIds : timers[t].state = "unused"
    /\ LET conv == reqs[r].conv
           st == startTrigger(activeTriggers, timers,
                              TriggerKey(conv.characterName, conv.chatName),
                              createSubroutineMetadata(BaseConfig),
                              ChatFilePath(conv.characterName, conv.chatName),
                              conv.characterName) IN
       /\ reqs' = [reqs EXCEPT ![r] =
              Respond([reqs[r] EXCEPT !.route = "start", !.changed = (st.result = "true")],
                      IF st.result = "true" THEN 200 ELSE 409)]
       /\ activeTriggers' = st.reg
       /\ timers' = st.tms
    /\ UNCHANGED <<build, exited, disk, chains, cycles, uncaught>>

\* POST stop: the key is built and stopTrigger runs
KeyStop(r) ==
    /\ reqs[r].pc = "idle"
    /\ LET conv == reqs[r].conv
           st == stopTrigger(activeTriggers, timers,
                             TriggerKey(conv.characterName, conv.chatName)) IN
       /\ reqs' = [reqs EXCEPT ![r] =
              Respond([reqs[r] EXCEPT !.route = "stop", !.stopped = st.result],
                      IF st.result THEN 200 ELSE 404)]
       /\ activeTriggers' = st.reg
       /\ timers' = st.tms
    /\ UNCHANGED <<build, exited, disk, chains, cycles, uncaught>>

NextKeys ==
    \/ \E r \in ReqIds : KeyStart(r)
    \/ \E r \in ReqIds : KeyStop(r)

SpecKeys == InitKeys /\ [][NextKeys]_vars

-----------------------------------------------------------------------------
(* The subroutine management routes on their own: POST /subroutines and
   PUT /subroutines/:characterName/:chatName.  The file system maps a
   character's chat directory and each chat file to an entry. *)

SubConvs == {AllConvs[1], AllConvs[2]}
SubPaths == {ChatFilePath(c.characterName, c.chatName) : c \in SubConvs}

\* getCharacterChatDir(characterName, directories)
getCharacterChatDir(characterName) == characterName
SubDirs == {getCharacterChatDir(c.characterName) : c \in SubConvs}

\* the entry fs.mkdir(chatDir, { recursive: true }) leaves
DirEntry == [exists |-> TRUE, lines |-> <<>>]

\* req.body of POST /subroutines; a config without a key holds Undefined
\* (interval: 0) for it
BodyConfig == [BaseConfig EXCEPT !.triggerType = Undefined]

Bodies ==
    <<[characterName |-> "bot", chatName |-> "job", triggerType |-> "time-based",
       config |-> BodyConfig],
      [characterName |-> "bot", chatName |-> "job2", triggerType |-> "api-based",
       config |-> [BodyConfig EXCEPT !.interval = 0, !.triggerText = Undefined]],
      [characterName |-> "bot", chatName |-> "job2", triggerType |-> "tool-based",
       config |-> [BodyConfig EXCEPT !.interval = 0, !.toolName = "search"]],
      [characterName |-> Undefined, chatName |-> "job2", triggerType |-> "time-based",
       config |-> BodyConfig],
      [characterName |-> "bot", chatName |-> "job2", triggerType |-> "cron",
       config |-> BodyConfig],
      [characterName |-> "bot", chatName |-> "job2", triggerType |-> "time-based",
       config |-> [BodyConfig EXCEPT !.interval = 0]],
      [characterName |-> "bot", chatName |-> "job2", triggerType |-> "tool-based",
       config |-> [BodyConfig EXCEPT !.interval = 0]],
      [characterName |-> "bot", chatName |-> "job2", triggerType |-> "tool-based",
       config |-> [BodyConfig EXCEPT !.interval = 0, !.toolName = "search",
                                     !.triggerText = "  "]]>>

NoBody == [characterName |-> Undefined, chatName |-> Undefined,
           triggerType |-> Undefined, config |-> NoCfg]

\* req.body of PUT: the keys Object.assign copies onto the stored config
Updates ==
    <<[field |-> "autoQueue", value |-> TRUE],
      [field |-> "interval", value |-> 30],
      [field |-> "interval", value |-> 0],
      [field |-> "triggerType", value |-> "tool-based"],
      [field |-> "triggerType", value |-> "cron"]>>

NoUpdate == [field |-> "none", value |-> FALSE]

\* Object.assign(config, updates)
ObjectAssign(config, updates) == [config EXCEPT ![updates.field] = updates.value]

validTriggers == {"time-based", "tool-based", "api-based"}

\* the checks POST /subroutines makes before it touches the file system:
\* TRUE when the body passes them
Validate(program, body) ==
    /\ Truthy(body.characterName) /\ Truthy(body.chatName) /\ Truthy(body.triggerType)
    /\ body.triggerType \in validTriggers
    /\ program = "monolith" =>
          /\ body.triggerType = "tool-based" => Truthy(body.config.toolName)
          /\ body.triggerType = "time-based" => body.config.interval >= 1
          /\ body.triggerType # "api-based" => Truthy(Trim(body.config.triggerText))

\* const subroutineConfig = { id, triggerType, ...config }
SubroutineConfig(body) ==
    IF body.config.triggerType # Undefined THEN body.config
    ELSE [body.config EXCEPT !.triggerType = body.triggerType]

\* the metadata POST /subroutines writes
CreateMetadata(body) ==
    [user_name |-> "User", character_name |-> body.characterName,
     subroutine |-> TRUE,
     subroutine_config |-> createSubroutineMetadata(SubroutineConfig(body))]

NoSubReq == [pc |-> "idle", route |-> "none", body |-> NoBody, conv |-> AllConvs[1],
             updates |-> NoUpdate, metadata |-> NoMetadata, messages |-> <<>>,
             status |-> 0]

InitSub ==
    /\ build \in Builds
    /\ \E dir \in {NoFile, DirEntry} :
       \E file \in {NoFile, StoredFile(HeaderOf(AllConvs[1], BaseConfig), <<OldTurn>>)} :
          /\ file.exists => dir.exists
          /\ disk = [p \in SubPaths \cup SubDirs |->
                        IF p \in SubDirs THEN dir
                        ELSE IF p = PathOf(AllConvs[1]) THEN file ELSE NoFile]
    /\ activeTriggers = [k \in Keys |-> NoJob]
    /\ timers = [t \in TimerIds |-> NoTimer]
    /\ reqs = [r \in ReqIds |-> NoSubReq]
    /\ chains = [c \in ChainIds |-> IdleChain]
    /\ cycles = 0
    /\ uncaught = 0
    /\ exited = FALSE

\* POST /subroutines arrives: validation, then await fs.mkdir
CreateRequest(r) ==
    /\ reqs[r].pc = "idle"
    /\ \E i \in 1..Len(Bodies) :
          LET req == [reqs[r] EXCEPT !.route = "create", !.body = Bodies[i]] IN
          reqs' = [reqs EXCEPT ![r] =
                      IF Validate(build.program, Bodies[i])
                      THEN [req EXCEPT !.pc = "mkdir"]
                      ELSE Respond(req, 400)]
    /\ UNCHANGED <<build, disk, activeTriggers, timers, chains, cycles, uncaught, exited>>

\* fs.mkdir(chatDir, { recursive: true }) completes; await fs.access
CreateMkdir(r) ==
    /\ reqs[r].pc = "mkdir"
    /\ disk' = [disk EXCEPT ![getCharacterChatDir(reqs[r].body.characterName)] = DirEntry]
    /\ reqs' = [reqs EXCEPT ![r].pc = "access"]
    /\ UNCHANGED <<build, activeTriggers, timers, chains, cycles, uncaught, exited>>

\* fs.access(chatFilePath) settles: 409 when the file is there, else the
\* metadata is built and writeChatFile(chatFilePath, metadata, []) starts
CreateAccess(r) ==
    /\ reqs[r].pc = "access"
    /\ LET body == reqs[r].body
           file == disk[ChatFilePath(body.characterName, body.chatName)] IN
       reqs' = [reqs EXCEPT ![r] =
                   IF file.exists THEN Respond(reqs[r], 409)
                   ELSE [reqs[r] EXCEPT !.pc = "write",
                                        !.metadata = CreateMetadata(body)]]
    /\ UNCHANGED <<build, disk, activeTriggers, timers, chains, cycles, uncaught, exited>>

\* writeChatFile completes; res.json({ success: true, ... })
CreateWrite(r) ==
    /\ reqs[r].pc = "write"
    /\ reqs[r].route = "create"
    /\ LET body == reqs[r].body IN
       disk' = [disk EXCEPT ![ChatFilePath(body.characterName, body.chatName)] =
                   writeChatFile(reqs[r].metadata, <<>>)]
    /\ reqs' = [reqs EXCEPT ![r] = Respond(reqs[r], 200)]
    /\ UNCHANGED <<build, activeTriggers, timers, chains, cycles, uncaught, exited>>

\* PUT /subroutines/:characterName/:chatName arrives; await readChatFile
\* (the route is the monolith's: routes/subroutines.js has no PUT)
UpdateRequest(r) ==
    /\ build.program = "monolith"
    /\ reqs[r].pc = "idle"
    /\ \E conv \in SubConvs : \E i \in 1..Len(Updates) :
          reqs' = [reqs EXCEPT ![r] =
                      [reqs[r] EXCEPT !.route = "update", !.conv = conv,
                                      !.updates = Updates[i], !.pc = "read"]]
    /\ UNCHANGED <<build, disk, activeTriggers, timers, chains, cycles, uncaught, exited>>

\* readChatFile settles: ENOENT -> 404, another error -> 500, not a
\* subroutine -> 404, else Object.assign and await writeChatFile
UpdateRead(r) ==
    /\ reqs[r].pc = "read"
    /\ LET rd == readChatFile(disk[PathOf(reqs[r].conv)]) IN
       reqs' = [reqs EXCEPT ![r] =
                   IF ~rd.ok THEN
                       Respond(reqs[r], IF rd.err = "ENOENT" THEN 404 ELSE 500)
                   ELSE IF ~isSubroutine(rd.metadata) THEN Respond(reqs[r], 404)
                   ELSE [reqs[r] EXCEPT
                            !.pc = "write",
                            !.metadata =
                                [rd.metadata EXCEPT !.subroutine_config =
                                    ObjectAssign(rd.metadata.subroutine_config,
                                                 reqs[r].updates)],
                            !.messages = rd.messages]]
    /\ UNCHANGED <<build, disk, activeTriggers, timers, chains, cycles, uncaught, exited>>

\* writeChatFile(chatFilePath, metadata, messages) completes; res.json
UpdateWrite(r) ==
    /\ reqs[r].pc = "write"
    /\ reqs[r].route = "update"
    /\ disk' = [disk EXCEPT ![PathOf(reqs[r].conv)] =
                   writeChatFile(reqs[r].metadata, reqs[r].messages)]
    /\ reqs' = [reqs EXCEPT ![r] = Respond(reqs[r], 200)]
    /\ UNCHANGED <<build, activeTriggers, timers, chains, cycles, uncaught, exited>>

NextSub ==
    \/ \E r \in ReqIds : CreateRequest(r)
    \/ \E r \in ReqIds : CreateMkdir(r)
    \/ \E r \in ReqIds : CreateAccess(r)
    \/ \E r \in ReqIds : CreateWrite(r)
    \/ \E r \in ReqIds : UpdateRequest(r)
    \/ \E r \in ReqIds : UpdateRead(r)
    \/ \E r \in ReqIds : UpdateWrite(r)

SpecSub == InitSub /\ [][NextSub]_vars

-----------------------------------------------------------------------------
(* Properties *)

Executors == {c \in ChainIds : chains[c].impl = "executor"}

Total(cnt) == cnt.trigger + cnt.agent + cnt.tool + cnt.cont + cnt.system

CountIn(seq, P(_)) == Cardinality({i \in DOMAIN seq : P(seq[i])})

LastN(seq, n) == SubSeq(seq, Len(seq) - n + 1, Len(seq))

IsAgentTurn(t) == ~t.is_user /\ ~t.is_system
IsSystemTurn(t) == t.is_system /\ t.name = "System"
IsToolTurn(t) == t.name = "Tool"
IsInjectedTurn(t) == t.is_user /\ t.name = "User"

\* the turns a chain appended, in the record `rec` that starts with `base`
HoldsAppended(rec, base, cnt) ==
    /\ Len(rec) = Len(base) + Total(cnt)
    /\ SubSeq(rec, 1, Len(base)) = base
    /\ LET new == SubSeq(rec, Len(base) + 1, Len(rec)) IN
       /\ CountIn(new, IsAgentTurn) = cnt.agent
       /\ CountIn(new, IsToolTurn) = cnt.tool
       /\ CountIn(new, IsSystemTurn) = cnt.system
       /\ CountIn(new, IsInjectedTurn) = cnt.trigger + cnt.cont
       /\ cnt.trigger = 1 => new[1].mes \in {"ping", "Heartbeat: Continue your task."}

\* C2: a chain of the executor ends within the depth bound and has then
\* written the record, whatever the backend answers.
C2_ChainEndsPersisted ==
    \A c \in Executors :
        chains[c].pc = "returned" =>
            /\ chains[c].depth <= MAX_DEPTH + 1
            /\ chains[c].writes >= 1

\* C3: every chain that returns has written the record exactly once, and the
\* record written (and on disk) is the record loaded at depth 0 followed by
\* every turn the chain appended.
C3_OneWriteOfAllTurns ==
    \A c \in Executors :
        chains[c].pc = "returned" =>
            /\ chains[c].writes = 1
            /\ HoldsAppended(chains[c].written, chains[c].base, chains[c].appended)
            /\ TurnsOf(disk[chains[c].chatFilePath]) = chains[c].written

\* C4: when a chain is about to load at depth + 1, the record on disk holds
\* every turn the chain appended so far.
C4_PersistedBeforeRecursing ==
    \A c \in Executors :
        (chains[c].pc = "read" /\ chains[c].depth > 0) =>
            HoldsAppended(TurnsOf(disk[chains[c].chatFilePath]),
                          chains[c].base, chains[c].appended)

\* C5: with autoQueue on and 21 answers of plain text, the chain returns true
\* through the depth guard and the record on disk ends with 21 injected
\* (trigger or continuation) turns and 21 agent turns.
C5_AutoQueueToTheGuard ==
    \A c \in Executors :
        (/\ chains[c].pc = "returned"
         /\ chains[c].cfg.autoQueue
         /\ chains[c].depth = MAX_DEPTH + 1
         /\ chains[c].appended.tool = 0) =>
            /\ chains[c].ret = "true"
            /\ LET rec == TurnsOf(disk[chains[c].chatFilePath]) IN
               /\ Len(rec) = Len(chains[c].base) + 2 * (MAX_DEPTH + 1)
               /\ CountIn(LastN(rec, 2 * (MAX_DEPTH + 1)), IsInjectedTurn) = MAX_DEPTH + 1
               /\ CountIn(LastN(rec, 2 * (MAX_DEPTH + 1)), IsAgentTurn) = MAX_DEPTH + 1

FinishAtOnce == [content |-> "text", tool_calls |-> <<FinishCall("ok")>>]

\* C6: when the first answer is text with one finish call and a reason, no
\* second generation is asked for, and the chain that returns has returned
\* true after one write of the loaded record plus the trigger turn, the agent
\* turn and one system turn that carries the reason.
C6_FinishAtOnce ==
    \A c \in Executors :
        chains[c].first = FinishAtOnce =>
            /\ chains[c].gens = 1
            /\ chains[c].depth = 0
            /\ chains[c].pc = "returned" =>
                  /\ chains[c].ret = "true"
                  /\ chains[c].writes = 1
                  /\ Len(chains[c].written) = Len(chains[c].base) + 3
                  /\ SubSeq(chains[c].written, 1, Len(chains[c].base)) = chains[c].base
                  /\ LET new == LastN(chains[c].written, 3) IN
                     /\ new[1].name = "User"
                     /\ new[1].mes = IF chains[c].cfg.triggerText = "ping" THEN "ping"
                                     ELSE "Heartbeat: Continue your task."
                     /\ new[2] = [name |-> chains[c].characterName, mes |-> "text",
                                  is_user |-> FALSE, is_system |-> FALSE]
                     /\ new[3] = [name |-> "System", mes |-> "Task finished: ok",
                                  is_user |-> TRUE, is_system |-> TRUE]
                  /\ TurnsOf(disk[chains[c].chatFilePath]) = chains[c].written

C6_Witness ==
    \E c \in Executors :
        /\ chains[c].first = FinishAtOnce
        /\ chains[c].pc = "returned"
        /\ Len(chains[c].base) = 1

\* C8: a chain that failed has left the file as it was when the chain began.
C8_FailedChainLeavesFile ==
    \A c \in Executors :
        chains[c].pc = "threw" => disk[chains[c].chatFilePath] = chains[c].before

\* a file that is missing, holds no line, or holds a line that is not JSON
Unreadable(file) ==
    \/ ~file.exists
    \/ \A i \in DOMAIN file.lines : file.lines[i].tag = "blank"
    \/ \E i \in DOMAIN file.lines : file.lines[i].tag = "bad"

\* C19: a cycle called on a record that is missing, empty or holds an
\* unparsable header or entry fails at its load: once the load is over the
\* chain has thrown, with no generation asked for, no turn appended, no write
\* made and the file as it was
C19_UnreadableRecordFailsLoad ==
    \A c \in Executors :
        (Unreadable(chains[c].before) /\ chains[c].pc # "read") =>
            /\ chains[c].pc = "threw"
            /\ chains[c].failedAt = "load"
            /\ chains[c].gens = 0
            /\ chains[c].writes = 0
            /\ Total(chains[c].appended) = 0
            /\ disk[chains[c].chatFilePath] = chains[c].before

\* a cycle has failed at the load of a record whose header parses and whose
\* only entry does not
C19_Witness ==
    \E c \in Executors :
        /\ chains[c].pc = "threw" /\ chains[c].failedAt = "load"
        /\ chains[c].before = FileOf(<<JsonHeader(HeaderOf(ExecConv, BaseConfig)), BadLine>>)

\* C29: every generation of a chain appends an agent turn, and an agent
\* turn the chain is about to save never has an empty body: an empty reply
\* is recorded as a non-empty placeholder
C29_AgentTurnOrPlaceholder ==
    \A c \in ChainIds :
        chains[c].impl = "executor" =>
            /\ chains[c].appended.agent = chains[c].gens
            /\ chains[c].pc = "write" =>
                  \A i \in 1..Len(chains[c].messages) :
                      (i > Len(chains[c].base) /\ IsAgentTurn(chains[c].messages[i]))
                          => Truthy(chains[c].messages[i].mes)

C31_ToolTurnReachesNextGeneration ==
    \A c \in Executors :
        (/\ chains[c].depth > 0
         /\ chains[c].last.tool_calls # <<>>
         /\ chains[c].pc = "gen")
            => /\ chains[c].appended.tool >= 1
               /\ Len(chains[c].messages) > 0
               /\ chains[c].messages[Len(chains[c].messages)]
                      = [name |-> "Tool",
                         mes |-> IF Len(chains[c].last.tool_calls) = 1
                                 THEN "[result]" ELSE "[result,result]",
                         is_user |-> TRUE, is_system |-> FALSE]

\* the reason a list of tool calls finishes with: that of its first finish
\* call, "Task completed" when the call gives none
FinishReasonOf(toolCalls) ==
    LET i == CHOOSE i \in 1..Len(toolCalls) :
                 /\ toolCalls[i].name = "finish"
                 /\ \A j \in 1..(i - 1) : toolCalls[j].name # "finish" IN
    IF toolCalls[i].reason \in {Undefined, Null, ""} THEN "Task completed"
    ELSE toolCalls[i].reason

\* C32: at any depth, a response whose tool calls include finish, wherever
\* in the list, makes the chain push one system turn with the finish reason
\* and go on to write; from there it generates no more, and the write that
\* completes stores the chain's turns and returns true
C32_FinishEndsTheChain ==
    [][\A c \in ChainIds :
          LET old == chains[c]
              new == chains'[c] IN
          /\ (/\ old.impl = "executor" /\ old.pc = "gen"
              /\ new.gens = old.gens + 1
              /\ \E i \in 1..Len(new.last.tool_calls) :
                     new.last.tool_calls[i].name = "finish")
                 => /\ new.pc = "write"
                    /\ new.finished
                    /\ new.depth = old.depth
                    /\ new.appended.system = old.appended.system + 1
                    /\ new.appended.tool = old.appended.tool
                    /\ new.messages[Len(new.messages)]
                           = [name |-> "System",
                              mes |-> "Task finished: "
                                         \o FinishReasonOf(new.last.tool_calls),
                              is_user |-> TRUE, is_system |-> TRUE]
          /\ (old.impl = "executor" /\ old.pc = "write" /\ old.finished)
                 => /\ new.gens = old.gens
                    /\ new.pc \in {"write", "returned", "threw", "caught"}
                    /\ new.pc = "returned" =>
                          /\ new.ret = "true"
                          /\ TurnsOf(disk'[old.chatFilePath]) = old.messages]_vars

\* a chain at depth > 0 got a finish call after another call, saved and
\* returned true
C32_Witness ==
    \E c \in Executors :
        /\ chains[c].depth > 0
        /\ chains[c].last.tool_calls = <<OtherCall, FinishCall("ok")>>
        /\ chains[c].pc = "returned" /\ chains[c].ret = "true"
        /\ chains[c].writes = 1

\* C39: a chain generates at most 21 times, at depths 0 to 20; its depth
\* goes up by exactly 1 at each recursive call and never passes 21
C39_DepthIsBounded ==
    [][\A c \in Executors :
          LET old == chains[c]
              new == chains'[c] IN
          /\ old.depth <= 21 /\ old.gens <= 21
          /\ old.gens <= old.depth + 1
          /\ (old.pc = "gen" /\ new.gens = old.gens + 1) => old.depth <= 20
          /\ (InFlight(old) /\ new.impl = "executor")
                => /\ new.depth \in {old.depth, old.depth + 1}
                   /\ new.depth = old.depth + 1 =>
                         (old.pc = "gen" /\ new.gens = old.gens + 1)]_vars

\* a chain generated 21 times and was ended by the guard at depth 21
C39_Witness ==
    \E c \in Executors :
        /\ chains[c].gens = 21
        /\ chains[c].depth = 21
        /\ chains[c].pc = "returned"
        /\ chains[c].writes = 0

LiveTimers(key) == {t \in TimerIds : timers[t].state = "live" /\ timers[t].key = key}

\* C1: a key never has more than one live timer, and an entry of kind
\* interval always names the one live timer of its key
C1_OneLiveTimerPerKey ==
    \A key \in Keys :
        /\ Cardinality(LiveTimers(key)) <= 1
        /\ activeTriggers[key].type = "interval" => LiveTimers(key) = {activeTriggers[key].timer}

\* the cycles of timers that are in flight on a key
InFlightOn(key) == {c \in ChainIds : InFlight(chains[c]) /\ chains[c].origin # 0 /\ chains[c].key = key}

\* C7: an error of a fired cycle ends in the catch of the timer callback:
\* nothing escapes, the step that fails changes neither the registry nor a
\* timer, and the timer of the failed cycle, while it is live, can fire again
C7_FailedCycleIsCaught ==
    /\ [](/\ uncaught = 0
          /\ \A c \in ChainIds : chains[c].origin # 0 => chains[c].pc # "threw"
          /\ \A c \in ChainIds :
                (/\ chains[c].pc = "caught"
                 /\ timers[chains[c].origin].state = "live"
                 /\ cycles < MaxCycles) => ENABLED Tick(chains[c].origin))
    /\ [][\A c \in ChainIds :
            (chains[c].pc # "caught" /\ chains'[c].pc = "caught" /\ chains[c].origin # 0)
                => (activeTriggers' = activeTriggers /\ timers' = timers)]_vars

\* where every cycle fails at its load: a second tick of the live timer fired
\* after the first cycle had failed, and its failure was caught as well
C7_Witness ==
    /\ build.executor = "executor"
    /\ cycles = 2
    /\ chains[2] = IdleChain
    /\ chains[1].pc = "caught"
    /\ chains[1].failedAt = "load"
    /\ timers[chains[1].origin].state = "live"
    /\ activeTriggers[chains[1].key].timer = chains[1].origin

\* C9: no key has two cycles in flight at once
C9_OneCycleInFlightPerKey ==
    \A key \in Keys : Cardinality(InFlightOn(key)) <= 1

IsPrefix(a, b) == Len(a) <= Len(b) /\ SubSeq(b, 1, Len(a)) = a

\* a write of a route or of a cycle resolved
SomeWrite ==
    \/ \E r \in ReqIds : StartWrite(r)
    \/ \E r \in ReqIds : StopWrite(r)
    \/ \E c \in ChainIds : OldWrite(c)

\* C10: every write that resolves leaves on disk a turn sequence that the
\* one before it is a prefix of
C10_TurnsOnlyGrow ==
    [][SomeWrite => \A p \in Paths : IsPrefix(TurnsOf(disk[p]), TurnsOf(disk'[p]))]_vars

\* C11: in every reachable state and for every key, stop on a key without
\* an entry returns false and changes nothing; stop on a key with an entry
\* clears its timer (if it has one), removes the entry and nothing else,
\* returns true, and a stop right after it returns false and changes nothing
C11_StopIsIdempotent ==
    \A key \in Keys :
        LET st == stopTrigger(activeTriggers, timers, key)
            again == stopTrigger(st.reg, st.tms, key) IN
        /\ activeTriggers[key].type = "none" =>
              (st.result = FALSE /\ st.reg = activeTriggers /\ st.tms = timers)
        /\ activeTriggers[key].type # "none" =>
              /\ st.result = TRUE
              /\ st.reg[key].type = "none"
              /\ \A k \in Keys \ {key} : st.reg[k] = activeTriggers[k]
              /\ \A t \in TimerIds :
                    st.tms[t].state =
                        IF activeTriggers[key].type = "interval" /\ activeTriggers[key].timer = t
                        THEN "cleared" ELSE timers[t].state
        /\ again.result = FALSE /\ again.reg = st.reg /\ again.tms = st.tms

\* a stop request found an entry, removed it and cleared its timer
C11_Witness ==
    /\ build.program = "modular"
    /\ \E r \in ReqIds :
          /\ reqs[r].route = "stop" /\ reqs[r].stopped
          /\ activeTriggers[KeyOf(reqs[r].conv)].type = "none"
          /\ \E t \in TimerIds : timers[t].state = "cleared" /\ timers[t].key = KeyOf(reqs[r].conv)

\* C12: the step in which a stop request runs the registry's stop (up to
\* the route's first await) leaves every chat file, and with it the stored
\* active flag, as it was
C12_StopLeavesRecord ==
    [][(\E r \in ReqIds, conv \in Convs : StopRequest(r, conv)) => disk' = disk]_vars

\* stop has returned true and the stored flag still says active
C12_Witness ==
    \E r \in ReqIds :
        /\ reqs[r].route = "stop" /\ reqs[r].stopped /\ reqs[r].pc = "read"
        /\ activeTriggers[KeyOf(reqs[r].conv)].type = "none"
        /\ readChatFile(disk[PathOf(reqs[r].conv)]).ok
        /\ readChatFile(disk[PathOf(reqs[r].conv)]).metadata.subroutine_config.active

\* C13: in every reachable state a shutdown would leave the registry empty
\* and no timer live, would change nothing if the registry is empty and every
\* timer already released, and after it stop returns false for every key
C13_ShutdownReleasesAll ==
    LET sd == IF build.program = "modular"
              THEN shutdownTriggers(activeTriggers, timers)
              ELSE MonolithExit(activeTriggers, timers) IN
    /\ \A k \in Keys : sd.reg[k].type = "none"
    /\ \A t \in TimerIds : sd.tms[t].state # "live"
    /\ (\A k \in Keys : activeTriggers[k].type = "none") => sd.tms = timers
    /\ \A k \in Keys : stopTrigger(sd.reg, sd.tms, k).result = FALSE

\* C14: no timer is ever scheduled, and no interval entry registered, for a
\* time-based configuration whose interval is missing or less than 1; the
\* start request that met such a configuration was answered with an error
C14_NoTimerWithoutInterval ==
    /\ \A t \in TimerIds : timers[t].state # "unused" => timers[t].cfg.interval >= 1
    /\ \A r \in ReqIds :
          (/\ reqs[r].route = "start" /\ reqs[r].pc = "done"
           /\ reqs[r].status = 200
           /\ reqs[r].metadata.subroutine_config.triggerType = "time-based")
              => reqs[r].metadata.subroutine_config.interval >= 1

\* C16: in the modules a cycle begins only on a tick of the timer that the
\* entry of its key names, so none begins for a key between a stop and the
\* next start; a cycle that is in flight is never held back by the registry:
\* its pending load or save can complete whether or not its key has an entry
C16_StopEndsFutureTicksOnly ==
    /\ [][build.program = "modular" =>
            \A t \in TimerIds :
                Tick(t) => /\ activeTriggers[timers[t].key].type = "interval"
                           /\ activeTriggers[timers[t].key].timer = t]_vars
    /\ [](build.program = "modular" =>
            \A c \in ChainIds :
                /\ chains[c].pc = "read" => ENABLED OldRead(c)
                /\ chains[c].pc = "write" => ENABLED OldWrite(c))

\* stop has returned true for a key while a cycle of that key was about to
\* save: the timer is cleared, the entry is gone, the save is still to come
C16_Witness ==
    /\ build.program = "modular"
    /\ \E c \in ChainIds, r \in ReqIds :
          /\ chains[c].pc = "write"
          /\ timers[chains[c].origin].state = "cleared"
          /\ activeTriggers[chains[c].key].type = "none"
          /\ reqs[r].route = "stop" /\ reqs[r].stopped
          /\ KeyOf(reqs[r].conv) = chains[c].key

\* C17: in the modules, once exit() has run no timer ticks any more
C17_NoTickAfterShutdown ==
    [][(exited /\ build.program = "modular") => ~(\E t \in TimerIds : Tick(t))]_vars

\* the stored configurations of kind tool-based and api-based
PlaceholderConfigs ==
    {c \in StoredConfigs : c.triggerType \in {"tool-based", "api-based"}}

\* C18: an entry holds a timer handle exactly when its kind is interval; in
\* every reachable state, for a key without an entry, the registration of a
\* tool-based or api-based configuration succeeds, stores an entry of that
\* kind without a timer and schedules nothing, and stop and shutdown then
\* remove that entry; no start request is answered "not implemented"
C18_PlaceholderJobs ==
    /\ \A k \in Keys : (activeTriggers[k].timer # 0) <=> (activeTriggers[k].type = "interval")
    /\ \A r \in ReqIds : reqs[r].status # 501
    /\ \A k \in Keys, cfg \in PlaceholderConfigs :
          activeTriggers[k].type = "none" =>
              LET st == startTrigger(activeTriggers, timers, k, cfg, Undefined, Undefined)
                  mr == MonolithRegister(activeTriggers, timers, k, cfg, Undefined,
                                         Undefined, NoMetadata)
                  ok == IF build.program = "modular" THEN st.result = "true" ELSE mr.status = 200
                  reg == IF build.program = "modular" THEN st.reg ELSE mr.reg
                  tms == IF build.program = "modular" THEN st.tms ELSE mr.tms
                  sd == IF build.program = "modular"
                        THEN shutdownTriggers(reg, tms) ELSE MonolithExit(reg, tms)
                  sp == IF build.program = "modular"
                        THEN stopTrigger(reg, tms, k).reg ELSE MonolithUnregister(reg, tms, k).reg
              IN /\ ok
                 /\ reg[k].type = (IF cfg.triggerType = "tool-based" THEN "tool-based" ELSE "api")
                 /\ reg[k].timer = 0
                 /\ tms = timers
                 /\ sp[k].type = "none"
                 /\ sd.reg[k].type = "none"

C21_FlagFollowsLifecycle ==
    [][\A r \in ReqIds :
          (reqs[r].pc # "done" /\ reqs'[r].pc = "done" /\ reqs'[r].status = 200) =>
              LET rd == readChatFile(disk'[PathOf(reqs'[r].conv)])
                  job == activeTriggers'[KeyOf(reqs'[r].conv)] IN
              /\ rd.ok
              /\ reqs'[r].route = "start" =>
                    (rd.metadata.subroutine_config.active /\ job.type # "none")
              /\ reqs'[r].route = "stop" =>
                    (~rd.metadata.subroutine_config.active /\ job.type = "none")]_vars

\* C22: before the first request the registry is empty and no timer exists
\* whatever the records say; a start request that finds a valid time-based
\* record with active = true and no entry for its key is answered with
\* success and leaves an interval entry with a newly created live timer
C22_RegistryStartsEmpty ==
    /\ []((\A r \in ReqIds : reqs[r].pc = "idle") =>
            /\ \A k \in Keys : activeTriggers[k].type = "none"
            /\ \A t \in TimerIds : timers[t].state # "live")
    /\ [][\A r \in ReqIds :
            LET rd == readChatFile(disk[PathOf(reqs[r].conv)])
                key == KeyOf(reqs[r].conv) IN
            (/\ StartRead(r)
             /\ rd.ok /\ rd.metadata.subroutine
             /\ rd.metadata.subroutine_config.active
             /\ rd.metadata.subroutine_config.triggerType = "time-based"
             /\ rd.metadata.subroutine_config.interval >= 1
             /\ activeTriggers[key].type = "none")
                => /\ reqs'[r].pc = "done" /\ reqs'[r].status = 200
                   /\ activeTriggers'[key].type = "interval"
                   /\ timers[activeTriggers'[key].timer].state = "unused"
                   /\ timers'[activeTriggers'[key].timer].state = "live"
                   /\ disk' = disk]_vars

\* the first request after start-up, a start on a record stored with
\* active = true, has succeeded and its job is registered
C22_Witness ==
    /\ reqs[1].route = "start" /\ reqs[1].pc = "done" /\ reqs[1].status = 200
    /\ reqs[2].pc = "idle"
    /\ disk[PathOf(reqs[1].conv)] = StoredFile(HeaderOf(reqs[1].conv, [BaseConfig EXCEPT !.active = TRUE]), <<OldTurn>>)
    /\ activeTriggers[KeyOf(reqs[1].conv)].type = "interval"
    /\ timers[activeTriggers[KeyOf(reqs[1].conv)].timer].state = "live"

\* C23: a start request that finds a time-based record whose interval is
\* missing or less than 1 is answered at once with a status between 400 and
\* 499
C23_InvalidConfigIsUserError ==
    [][\A r \in ReqIds :
          LET rd == readChatFile(disk[PathOf(reqs[r].conv)]) IN
          (/\ StartRead(r)
           /\ rd.ok /\ rd.metadata.subroutine
           /\ rd.metadata.subroutine_config.triggerType = "time-based"
           /\ rd.metadata.subroutine_config.interval < 1
           /\ activeTriggers[KeyOf(reqs[r].conv)].type = "none")
              => /\ reqs'[r].pc = "done"
                 /\ reqs'[r].status \in 400..499]_vars

C27_TickRunsOwnConversation ==
    [][\A t \in TimerIds :
          Tick(t) =>
              LET ch == chains'[FreeChain] IN
              /\ ch.origin = t
              /\ ch.depth = 0
              /\ ch.chatFilePath = timers[t].chatFilePath
              /\ ch.cfg = timers[t].cfg]_vars

\* the text of the trigger turn: triggerText, else fallbackTriggerText, else
\* the default string of the executor
TriggerTextOf(impl, cfg) ==
    IF Truthy(Trim(cfg.triggerText)) THEN cfg.triggerText
    ELSE IF Truthy(cfg.fallbackTriggerText) THEN cfg.fallbackTriggerText
    ELSE IF impl = "executor" THEN "Heartbeat: Continue your task."
    ELSE "(trigger activated)"

\* C28: a chain of triggers/executor.js injects a trigger turn only at
\* depth 0, only once, and with the text triggerText, else
\* fallbackTriggerText, else the default; no step at depth > 0 injects one
C28_OneTriggerTurnAtDepthZero ==
    [][\A c \in ChainIds :
          (/\ chains'[c].impl \in {"executor", "legacy"}
           /\ chains'[c].appended.trigger > chains[c].appended.trigger)
              => /\ chains'[c].depth = 0
                 /\ chains'[c].appended.trigger = 1
                 /\ chains'[c].messages[Len(chains'[c].messages)].mes
                        = TriggerTextOf(chains'[c].impl, chains'[c].cfg)]_vars

\* C35: (modules) a chain that failed does nothing more: its slot changes
\* only when a later tick starts a chain in it.  Every tick starts a chain
\* that holds nothing of earlier chains, at depth 0, and what that chain
\* loads is the record as the disk holds it when it reads
C35_TicksAreIndependent ==
    [][build.program = "modular" =>
          \A c \in ChainIds :
              LET old == chains[c]
                  new == chains'[c] IN
              /\ ((old.pc \in {"threw", "caught"} \/ cycles' = cycles + 1) /\ new # old)
                    => /\ cycles' = cycles + 1
                       /\ new.origin \in TimerIds
                       /\ timers[new.origin].state = "live"
                       /\ new.depth = 0
                       /\ new.gens = 0 /\ new.writes = 0
                       /\ new.messages = <<>>
                       /\ new.appended
                             = [trigger |-> 0, agent |-> 0, tool |-> 0, cont |-> 0, system |-> 0]
              /\ (old.pc = "read" /\ old.depth = 0 /\ new.pc = "gen")
                    => /\ new.base = TurnsOf(disk[old.chatFilePath])
                       /\ SubSeq(new.messages, 1, Len(new.base)) = new.base
                       /\ Len(new.messages) = Len(new.base) + 1]_vars

\* a cycle of a timer failed at its write and was caught, and the next tick
\* of the same timer has loaded the record afresh at depth 0
C35_Witness ==
    /\ build.program = "modular"
    /\ chains[1].pc = "caught" /\ chains[1].failedAt = "write"
    /\ chains[2].origin = chains[1].origin
    /\ chains[2].pc = "gen" /\ chains[2].depth = 0 /\ chains[2].gens = 0
    /\ chains[2].base = TurnsOf(disk[chains[2].chatFilePath])

\* C36: (modules) once a stop request for a conversation has been answered
\* 200 and the record says active = false, a cycle that saves the record
\* leaves it saying active = false
C36_CycleKeepsStoppedFlag ==
    [][build.program = "modular" =>
          \A c \in ChainIds :
              LET p == chains[c].chatFilePath
                  before == readChatFile(disk[p])
                  after == readChatFile(disk'[p]) IN
              (/\ chains[c].pc = "write" /\ chains'[c].pc = "returned"
               /\ \E r \in ReqIds :
                     /\ reqs[r].route = "stop" /\ reqs[r].pc = "done"
                     /\ reqs[r].status = 200 /\ PathOf(reqs[r].conv) = p
               /\ before.ok /\ isSubroutine(before.metadata)
               /\ ~before.metadata.subroutine_config.active)
                  => /\ after.ok
                     /\ ~after.metadata.subroutine_config.active]_vars

\* C37: a start request that is answered with an error other than 409 has
\* left no registry entry (and so no timer) of its own for the key, and the
\* step that answers it leaves the record on disk as it was
C37_FailedStartLeavesNothing ==
    [][\A r \in ReqIds :
          (/\ reqs[r].route = "start" /\ reqs[r].pc # "done"
           /\ reqs'[r].pc = "done"
           /\ reqs'[r].status \notin {200, 409})
              => /\ ~(/\ reqs'[r].changed
                      /\ activeTriggers'[KeyOf(reqs[r].conv)].type # "none")
                 /\ disk'[PathOf(reqs[r].conv)] = disk[PathOf(reqs[r].conv)]]_vars

\* C38: every live timer is the timer of exactly one interval entry of the
\* registry, and the timer of every interval entry is live
C38_TimersMatchEntries ==
    /\ \A t \in TimerIds :
          timers[t].state = "live" =>
              Cardinality({k \in Keys : /\ activeTriggers[k].type = "interval"
                                        /\ activeTriggers[k].timer = t}) = 1
    /\ \A k \in Keys :
          activeTriggers[k].type = "interval" =>
              timers[activeTriggers[k].timer].state = "live"

(* Properties of the registry keys (SpecKeys) *)

\* C15: requests for two different conversations use two different keys,
\* so a start is refused, and a stop finds a job, only when an earlier
\* request started a job for that same conversation
C15_KeysAreInjective ==
    /\ \A r, q \in ReqIds :
          reqs[r].conv # reqs[q].conv =>
              TriggerKey(reqs[r].conv.characterName, reqs[r].conv.chatName)
                  # TriggerKey(reqs[q].conv.characterName, reqs[q].conv.chatName)
    /\ \A r \in ReqIds :
          (reqs[r].status = 409 \/ (reqs[r].route = "stop" /\ reqs[r].stopped)) =>
              \E q \in ReqIds \ {r} :
                  reqs[q].route = "start" /\ reqs[q].changed /\ reqs[q].conv = reqs[r].conv

(* Properties of the subroutine routes (SpecSub) *)

\* a create body that fails validation, as the specification lists it
FailsValidation(body) ==
    \/ ~Truthy(body.characterName) \/ ~Truthy(body.chatName)
    \/ ~Truthy(body.triggerType)
    \/ body.triggerType \notin {"time-based", "tool-based", "api-based"}
    \/ body.triggerType = "time-based" /\ ~(body.config.interval >= 1)
    \/ body.triggerType = "tool-based" /\ ~Truthy(body.config.toolName)
    \/ /\ body.triggerType \in {"time-based", "tool-based"}
       /\ ~Truthy(Trim(body.config.triggerText))

\* the triggerType invariant of a stored configuration
TriggerTypeInvariant(cfg) ==
    /\ cfg.triggerType \in {"time-based", "tool-based", "api-based"}
    /\ cfg.triggerType = "time-based" => cfg.interval >= 1
    /\ cfg.triggerType = "tool-based" => Truthy(cfg.toolName)

C26_StoredConfigsAreValid ==
    \A p \in SubPaths :
        LET rd == readChatFile(disk[p]) IN
        (rd.ok /\ isSubroutine(rd.metadata)) =>
            TriggerTypeInvariant(rd.metadata.subroutine_config)

\* C34: a create request that finds the record on disk is answered 409 and
\* leaves the disk alone, and a create request writes its record only where
\* no record is: of two interleaved creates for one name at most one writes
C34_CreateNeverOverwrites ==
    [][\A r \in ReqIds :
          LET p == ChatFilePath(reqs[r].body.characterName, reqs[r].body.chatName) IN
          /\ (/\ reqs[r].route = "create" /\ reqs[r].pc = "access"
              /\ reqs'[r] # reqs[r]
              /\ disk[p].exists)
                 => /\ reqs'[r].pc = "done" /\ reqs'[r].status = 409
                    /\ disk' = disk
          /\ (/\ reqs[r].route = "create" /\ reqs[r].pc = "write"
              /\ reqs'[r] # reqs[r])
                 => ~disk[p].exists]_vars

====
